---- MODULE Spec2Model ----
(***************************************************************************)
(* Model of the mixture-of-agents orchestration core of moa_cli:           *)
(* the round-robin endpoint selector, runModel, processLayer,              *)
(* aggregateResponses and runMOAChain.                                     *)
(*                                                                         *)
(* Text is modelled as a sequence of tokens (a token is a character or an  *)
(* atomic fragment such as "{input}" or ".xml"); concatenation of text is  *)
(* concatenation of sequences.  An optional value is a sequence of length  *)
(* at most one; an optional text is the empty text when absent (JavaScript *)
(* treats undefined and "" alike in every test the code makes on them).    *)
(***************************************************************************)
EXTENDS Integers, Sequences, FiniteSets, TLC

MaxInstances == 2
MaxLayers == 2
MaxAgents == 2
MaxIterations == 2

None == <<>>
Some(x) == <<x>>

-----------------------------------------------------------------------------
(* Text helpers: String.prototype.trim / endsWith / startsWith / replace / *)
(* Array.prototype.join.                                                   *)

WhiteSpace == {" ", "\n", "\t"}

RECURSIVE TrimStart(_)
TrimStart(s) ==
    IF s # <<>> /\ Head(s) \in WhiteSpace THEN TrimStart(Tail(s)) ELSE s

RECURSIVE TrimEnd(_)
TrimEnd(s) ==
    IF s # <<>> /\ s[Len(s)] \in WhiteSpace
    THEN TrimEnd(SubSeq(s, 1, Len(s) - 1))
    ELSE s

Trim(s) == TrimEnd(TrimStart(s))

EndsWith(s, tok) == s # <<>> /\ s[Len(s)] = tok

StartsWith(s, tok) == s # <<>> /\ s[1] = tok

\* The element of a one-element set.  { F(v) : v \in {e} } computes F from
\* the value of e, e being evaluated once, as a const binding does.
The(S) == CHOOSE r \in S : TRUE

\* String.prototype.includes.
Includes(s, sub) ==
    \E i \in 0..(Len(s) - Len(sub)) : SubSeq(s, i + 1, i + Len(sub)) = sub

\* The replacement patterns String.prototype.replace expands in a
\* replacement string: a dollar sign followed by a dollar sign is a dollar
\* sign, followed by an ampersand the matched text, followed by an
\* apostrophe the text after the match.  (Followed by a backtick it is the
\* text before the match; the texts here hold no backtick.)
RECURSIVE ExpandReplacement(_, _, _)
ExpandReplacement(rep, matched, after) ==
    IF rep = <<>> THEN <<>>
    ELSE IF rep[1] = "$" /\ Len(rep) >= 2 /\ rep[2] \in {"$", "&", "'"}
    THEN (CASE rep[2] = "$" -> <<"$">>
            [] rep[2] = "&" -> <<matched>>
            [] OTHER -> after)
         \o ExpandReplacement(SubSeq(rep, 3, Len(rep)), matched, after)
    ELSE <<rep[1]>> \o ExpandReplacement(Tail(rep), matched, after)

\* String.prototype.replace with a string pattern and a replacement string:
\* the first occurrence only.
Replace(s, pat, rep) ==
    The({ IF \E i \in 1..Len(t) : t[i] = pat
          THEN LET i == CHOOSE j \in 1..Len(t) :
                            t[j] = pat /\ \A k \in 1..(j - 1) : t[k] # pat
               IN SubSeq(t, 1, i - 1)
                  \o ExpandReplacement(rep, pat, SubSeq(t, i + 1, Len(t)))
                  \o SubSeq(t, i + 1, Len(t))
          ELSE t
          : t \in {s} })

RECURSIVE Join(_, _)
Join(parts, sep) ==
    IF parts = <<>> THEN <<>>
    ELSE IF Len(parts) = 1 THEN parts[1]
    ELSE parts[1] \o sep \o Join(Tail(parts), sep)

Digits == <<"0", "1", "2", "3", "4", "5", "6", "7", "8", "9">>

DigitValue(d) == (CHOOSE i \in 1..Len(Digits) : Digits[i] = d) - 1

IsDigit(t) == \E i \in 1..Len(Digits) : Digits[i] = t

RECURSIVE NatToString(_)
NatToString(n) ==
    IF n < Len(Digits) THEN <<Digits[n + 1]>>
    ELSE NatToString(n \div Len(Digits)) \o <<Digits[(n % Len(Digits)) + 1]>>

-----------------------------------------------------------------------------
(* JavaScript numbers, as far as the weighted aggregation needs them: a    *)
(* number is NaN or a non-negative rational num/den.                       *)

NaN == [nan |-> TRUE, num |-> 0, den |-> 1]
Num(n, d) == [nan |-> FALSE, num |-> n, den |-> d]

RECURSIVE DigitsValue(_, _)
DigitsValue(s, acc) ==
    IF s = <<>> THEN acc
    ELSE DigitsValue(Tail(s), acc * Len(Digits) + DigitValue(Head(s)))

RECURSIVE Pow10(_)
Pow10(k) == IF k = 0 THEN 1 ELSE Len(Digits) * Pow10(k - 1)

\* ToNumber of a string operand of `*`: "" is 0, a decimal literal is its
\* value, anything else is NaN.
ToNumber(s) ==
    The({ LET dots == {i \in 1..Len(t) : t[i] = "."}
          IN IF t = <<>> THEN Num(0, 1)
             ELSE IF \E i \in 1..Len(t) : ~IsDigit(t[i]) /\ t[i] # "." THEN NaN
             ELSE IF dots = {} THEN Num(DigitsValue(t, 0), 1)
             ELSE IF Cardinality(dots) > 1 \/ Len(t) = 1 THEN NaN
             ELSE LET d == CHOOSE i \in dots : TRUE
                      frac == SubSeq(t, d + 1, Len(t))
                  IN Num(DigitsValue(SubSeq(t, 1, d - 1) \o frac, 0),
                         Pow10(Len(frac)))
          : t \in {Trim(s)} })

Times(a, b) ==
    IF a.nan \/ b.nan THEN NaN ELSE Num(a.num * b.num, a.den * b.den)

RECURSIVE FractionDigits(_, _, _)
FractionDigits(rem, den, k) ==
    IF rem = 0 \/ k = 0 THEN <<>>
    ELSE <<Digits[((rem * Len(Digits)) \div den) + 1]>>
             \o FractionDigits((rem * Len(Digits)) % den, den, k - 1)

\* Number::toString of a non-negative number: the integer part, and the
\* fraction digits when there are any (at most 16 of them).
NumberToString(x) ==
    The({ IF v.nan THEN <<"NaN">>
          ELSE LET frac == FractionDigits(v.num % v.den, v.den, 16)
               IN NatToString(v.num \div v.den)
                      \o (IF frac = <<>> THEN <<>> ELSE <<".">> \o frac)
          : v \in {x} })

-----------------------------------------------------------------------------
(* Type definitions (interfaces Agent, AggregationStrategy, Layer,         *)
(* ModelResponse, MOAConfig) as record constructors.                       *)

AgentConfig(name, model, promptTemplate, instanceUri) ==
    [name |-> name, model |-> model, promptTemplate |-> promptTemplate,
     systemPrompt |-> <<>>, instanceUri |-> instanceUri]

AggregationStrategy(method, promptTemplate, weights) ==
    [method |-> method, promptTemplate |-> promptTemplate, weights |-> weights]

Layer(name, agents, aggregationStrategy) ==
    [name |-> name, agents |-> agents,
     aggregationStrategy |-> aggregationStrategy]

\* content, optional metadata, optional error ("" when absent).
ModelResponse(content, metadata, error) ==
    [content |-> content, metadata |-> metadata, error |-> error]

NoMetadata == [iterations |-> None, totalResponses |-> 0,
               finalResponseLength |-> 0, present |-> FALSE]

MOAConfig(layers, maxIterations, stopCriteria) ==
    [layers |-> layers, maxIterations |-> maxIterations,
     stopCriteria |-> stopCriteria]

SYNTHESIS_MODEL == <<"ollama:", "qwen2.5-coder">>

DEFAULT_AGGREGATION_TEMPLATE ==
    <<"\n", "Previous responses:", "\n", "{", "{responses}", "}", "\n",
      "Final synthesized response:">>

LocalhostUri == <<"http://localhost:11434">>

-----------------------------------------------------------------------------
(* The environment: configured endpoints, pipeline configurations, prompt  *)
(* documents and backends.                                                 *)

\* OLLAMA_API_URL_<n> entries of the environment, at most MAX_INSTANCES.
Instances(k) ==
    [i \in 1..k |-> [uri |-> <<"http://ollama-">> \o NatToString(i),
                     name |-> NatToString(i), priority |-> 1]]

OllamaModel == <<"ollama:", "llama2">>
LlmModel == <<"llm:", "gpt-4o">>
BareModel == <<"gpt-4">>

InlineTemplate ==
    <<"Q: ", "{input}", "\n", "Earlier: ", "{previous_responses}">>

PlainAgent(i) ==
    AgentConfig(<<"a">> \o NatToString(i), OllamaModel, InlineTemplate, <<>>)
XmlAgent(i) ==
    AgentConfig(<<"a">> \o NatToString(i), LlmModel, <<"agent", ".xml">>, <<>>)
PinnedAgent(i) ==
    AgentConfig(<<"a">> \o NatToString(i), LlmModel, InlineTemplate,
                <<"http://pinned:11434">>)
BareAgent(i) ==
    AgentConfig(<<"a">> \o NatToString(i), BareModel, InlineTemplate, <<>>)

\* The layer shapes the configurations are built from: who the agents are
\* (by position) and how the layer aggregates.
LayerShapes ==
    << [agents |-> [i \in 1..MaxAgents |-> PlainAgent(i)],
        strategy |-> AggregationStrategy("concatenate", <<>>, None)],
       [agents |-> [i \in 1..MaxAgents |->
                       IF i % 2 = 1 THEN XmlAgent(i) ELSE PlainAgent(i)],
        strategy |-> AggregationStrategy("synthesis", <<"synth", ".xml">>, None)],
       [agents |-> [i \in 1..MaxAgents |->
                       IF i % 2 = 1 THEN PlainAgent(i) ELSE PinnedAgent(i)],
        strategy |-> AggregationStrategy("weighted", <<>>, None)],
       [agents |-> [i \in 1..MaxAgents |-> XmlAgent(i)],
        strategy |-> AggregationStrategy("voting", <<>>, None)],
       [agents |-> <<>>,
        strategy |-> AggregationStrategy("concatenate", <<>>, None)],
       [agents |-> [i \in 1..MaxAgents |->
                       IF i % 2 = 1 THEN PlainAgent(i) ELSE BareAgent(i)],
        strategy |-> AggregationStrategy("synthesis", <<>>, None)],
       [agents |-> <<PlainAgent(1)>>,
        strategy |-> AggregationStrategy("weighted", <<"join", ".xml">>,
                                         Some(<<Num(2, 1)>>))] >>

\* The n-layer configuration whose first layer has shape number s and whose
\* later layers take the following shapes in turn.
Layers(s, n) ==
    [l \in 1..n |->
        LET shape == LayerShapes[((s + l - 2) % Len(LayerShapes)) + 1]
        IN Layer(<<"L">> \o NatToString(l), shape.agents, shape.strategy)]

Configs ==
    { MOAConfig(Layers(s, n), m, stop) :
        s \in 1..Len(LayerShapes), n \in 1..MaxLayers,
        m \in {None} \cup {Some(i) : i \in 0..MaxIterations},
        stop \in BOOLEAN }

\* The prompt document a reference names, when it can be read.
PromptDocument == [systemPrompt |-> <<"S">>,
                   template |-> <<"Doc: ", "{input}">>]

\* What the backend of a model can print on success.
Stdout(model) ==
    IF model = OllamaModel THEN {<<>>, <<"6", "\n">>}
    ELSE IF model = LlmModel THEN {<<" ", "\n">>, <<" ", "b", " ">>}
    ELSE {<<>>, <<"s", "\n">>}

\* A backend process exits 0 with some output, or fails.
BackendOutcomes(model) ==
    {[exitCode |-> 0, stdout |-> s] : s \in Stdout(model)}
        \cup {[exitCode |-> 1, stdout |-> <<>>]}

-----------------------------------------------------------------------------
VARIABLES
    ollamaInstances,      \* the configured endpoints
    currentInstanceIndex, \* the selector's cursor
    callLog,              \* the endpoints getNextInstance has returned, in order
    config,               \* the pipeline configuration
    initialInput,         \* runMOAChain's argument
    pc,                   \* where main / runMOAChain stands
    maxIterations,        \* runMOAChain's local constant
    iteration,            \* outer loop index, 0-based
    layerIdx,             \* inner loop position, 1-based
    currentInput,
    allResponses,         \* Response History
    layerInput,           \* processLayer's parameter input
    previousResponses,    \* processLayer's parameter previousResponses
    agents,               \* the agent invocations of the current layer
    rejection,            \* the reason Promise.all rejected with, if it did
    synth,                \* the synthesis invocation of aggregateResponses
    stopSeen,             \* the argument of the last stopCriteria call
    thrown,               \* the error that reached runMOAChain's catch block
    result,               \* what runMOAChain returned
    chain                 \* moa_chain.ts: the state of moaChainWithIterations

\* The variables of the layered program (part_000).
cliVars == <<ollamaInstances, currentInstanceIndex, callLog, config,
             initialInput, pc, maxIterations, iteration, layerIdx, currentInput,
             allResponses, layerInput, previousResponses, agents, rejection,
             synth, stopSeen, thrown, result>>

vars == <<cliVars, chain>>

\* moa_chain.ts is a program of its own: while the layered program runs,
\* it does not.
ChainIdle == [pc |-> "idle"]

\* The part of the state a step of the program may change, as a record.
Cur ==
    [currentInstanceIndex |-> currentInstanceIndex, callLog |-> callLog,
     config |-> config, pc |-> pc, maxIterations |-> maxIterations,
     iteration |-> iteration, layerIdx |-> layerIdx,
     currentInput |-> currentInput, allResponses |-> allResponses,
     layerInput |-> layerInput, previousResponses |-> previousResponses,
     agents |-> agents, rejection |-> rejection, synth |-> synth,
     stopSeen |-> stopSeen, thrown |-> thrown, result |-> result]

Commit(n) ==
  \E r \in {n} :
    /\ currentInstanceIndex' = r.currentInstanceIndex
    /\ callLog' = r.callLog
    /\ config' = r.config
    /\ pc' = r.pc
    /\ maxIterations' = r.maxIterations
    /\ iteration' = r.iteration
    /\ layerIdx' = r.layerIdx
    /\ currentInput' = r.currentInput
    /\ allResponses' = r.allResponses
    /\ layerInput' = r.layerInput
    /\ previousResponses' = r.previousResponses
    /\ agents' = r.agents
    /\ rejection' = r.rejection
    /\ synth' = r.synth
    /\ stopSeen' = r.stopSeen
    /\ thrown' = r.thrown
    /\ result' = r.result
    /\ UNCHANGED <<ollamaInstances, initialInput, chain>>

-----------------------------------------------------------------------------
(* Endpoint Selector                                                       *)

\* A selector that forgets to store the advanced cursor.
getNextInstanceNoAdvance(index) ==
    IF Len(ollamaInstances) = 0
    THEN [uri |-> LocalhostUri, index |-> index]
    ELSE [uri |-> ollamaInstances[index + 1].uri, index |-> index]

\* The endpoint returned and the cursor afterwards.
getNextInstance(index) ==
    IF Len(ollamaInstances) = 0
    THEN [uri |-> LocalhostUri, index |-> index]
    ELSE [uri |-> ollamaInstances[index + 1].uri,
          index |-> (index + 1) % Len(ollamaInstances)]

-----------------------------------------------------------------------------
(* Prompt Resolver                                                         *)

\* process.cwd().
Cwd == <<"/", "work">>

\* path.resolve of a reference without "." and ".." segments: an absolute
\* path is kept, a relative one is taken from the working directory.
Resolve(promptFile) ==
    IF StartsWith(promptFile, "/") THEN promptFile
    ELSE Cwd \o <<"/">> \o promptFile

\* The path check of readXMLPrompt.
PathAccepted(resolvedPath) == Includes(resolvedPath, Cwd)

PathError == <<"File path must be within current working directory">>

\* What readXMLPrompt can throw once the path check has passed.
ReadXMLPromptErrors(promptFile) ==
    { <<"Prompt file not found: ">> \o promptFile,
      <<"Prompt file too large">>,
      <<"Invalid XML: missing root <prompt> element">>,
      <<"Invalid XML: missing <template> element">> }

\* readXMLPrompt either returns the document's parts or throws.
ReadXMLPrompt(promptFile) ==
    IF ~PathAccepted(Resolve(promptFile))
    THEN { [ok |-> FALSE, systemPrompt |-> <<>>, template |-> <<>>,
            reason |-> PathError] }
    ELSE { [ok |-> TRUE, systemPrompt |-> PromptDocument.systemPrompt,
            template |-> PromptDocument.template, reason |-> <<>>] }
           \cup { [ok |-> FALSE, systemPrompt |-> <<>>, template |-> <<>>,
                   reason |-> e] : e \in ReadXMLPromptErrors(promptFile) }

-----------------------------------------------------------------------------
(* Agent Invoker                                                           *)

NoResponse == ModelResponse(<<>>, NoMetadata, <<>>)

\* One invocation of an agent: st is "readXMLPrompt" (awaiting the prompt
\* document), "running" (awaiting the backend), "thrown" (runModel threw
\* before reaching a backend; its promise is about to reject), "fulfilled"
\* or "rejected".
Invocation(agent, st, announced, instanceUri, prompt, response, reason) ==
    [agent |-> agent, st |-> st, announced |-> announced,
     instanceUri |-> instanceUri, prompt |-> prompt, response |-> response,
     reason |-> reason]

RunModelError(agent, message) ==
    <<"Error running model ">> \o agent.model \o <<": ">> \o message

\* A runModel that looks at the prefix before it selects an endpoint.
runModelPrefixFirst(agent, prompt, index, log) ==
    LET own == agent.instanceUri # <<>>
        g == getNextInstance(index)
        supported == StartsWith(agent.model, "ollama:")
                         \/ StartsWith(agent.model, "llm:")
    IN [st |-> IF supported THEN "running" ELSE "thrown",
        instanceUri |-> IF own THEN agent.instanceUri
                        ELSE IF supported THEN g.uri ELSE <<>>,
        reason |-> IF supported THEN <<>>
                   ELSE RunModelError(agent,
                            <<"Unsupported model prefix in: ">> \o agent.model),
        index |-> IF own \/ ~supported THEN index ELSE g.index,
        log |-> IF own \/ ~supported THEN log ELSE Append(log, g.uri)]

\* runModel up to its first await: the endpoint, the dispatch on the prefix.
runModel(agent, prompt, index, log) ==
    LET own == agent.instanceUri # <<>>
        g == getNextInstance(index)
        supported == StartsWith(agent.model, "ollama:")
                         \/ StartsWith(agent.model, "llm:")
    IN [st |-> IF supported THEN "running" ELSE "thrown",
        instanceUri |-> IF own THEN agent.instanceUri ELSE g.uri,
        reason |-> IF supported THEN <<>>
                   ELSE RunModelError(agent,
                            <<"Unsupported model prefix in: ">> \o agent.model),
        index |-> IF own THEN index ELSE g.index,
        log |-> IF own THEN log ELSE Append(log, g.uri)]

\* A runModel that hands back whatever the backend printed.
runModelSettleAcceptsBlank(agent, outcome) ==
    IF outcome.exitCode # 0
    THEN [ok |-> FALSE, response |-> NoResponse,
          reason |-> RunModelError(agent, <<"Failed with exit code 1">>)]
    ELSE [ok |-> TRUE,
          response |-> ModelResponse(Trim(outcome.stdout), NoMetadata, <<>>),
          reason |-> <<>>]

\* runModel after the backend call: the response, or the error thrown.
runModelSettle(agent, outcome) ==
    IF outcome.exitCode # 0
    THEN [ok |-> FALSE, response |-> NoResponse,
          reason |-> RunModelError(agent, <<"Failed with exit code 1">>)]
    ELSE IF Len(Trim(outcome.stdout)) = 0
    THEN [ok |-> FALSE, response |-> NoResponse,
          reason |-> RunModelError(agent, <<"Model returned empty response">>)]
    ELSE [ok |-> TRUE,
          response |-> ModelResponse(Trim(outcome.stdout), NoMetadata, <<>>),
          reason |-> <<>>]

\* An invocation after its promise settled.
Settled(inv, s) ==
    [inv EXCEPT !.st = IF s.ok THEN "fulfilled" ELSE "rejected",
                !.response = s.response, !.reason = s.reason]

-----------------------------------------------------------------------------
(* Layer Processor                                                         *)

Contents(responses) == [i \in 1..Len(responses) |-> responses[i].content]

contextualPrompt(promptContent, input, prev) ==
    Replace(Replace(promptContent, "{input}", input),
            "{previous_responses}", Join(Contents(prev), <<"\n">>))

\* The map callback of processLayer for one agent, up to its first await.
AgentStart(agent, input, prev, index, log) ==
    The({ IF EndsWith(agent.promptTemplate, ".xml")
          THEN [inv |-> Invocation(agent, "readXMLPrompt", g.uri, <<>>, <<>>,
                                   NoResponse, <<>>),
                index |-> g.index, log |-> Append(log, g.uri)]
          ELSE The({ The({ [inv |-> Invocation(agent, r.st, g.uri,
                                               r.instanceUri, prompt,
                                               NoResponse, r.reason),
                            index |-> r.index, log |-> r.log]
                           : r \in { runModel(agent, prompt, g.index,
                                              Append(log, g.uri)) } })
                     : prompt \in { contextualPrompt(agent.promptTemplate,
                                                     input, prev) } })
          : g \in {getNextInstance(index)} })

\* layer.agents.map(...): the callbacks run one after the other, each up to
\* its first await.
RECURSIVE MapAgents(_, _, _, _, _)
MapAgents(as, input, prev, index, log) ==
    IF as = <<>> THEN [agents |-> <<>>, index |-> index, log |-> log]
    ELSE The({ The({ [agents |-> <<first.inv>> \o rest.agents,
                      index |-> rest.index, log |-> rest.log]
                     : rest \in { MapAgents(Tail(as), input, prev,
                                            first.index, first.log) } })
               : first \in { AgentStart(Head(as), input, prev, index, log) } })

\* runMOAChain calls processLayer for layer l of iteration it and awaits it.
processLayer(c, it, l) ==
    The({ The({ [v EXCEPT !.pc = "awaitLayer", !.iteration = it,
                          !.layerIdx = l,
                          !.layerInput = v.currentInput,
                          !.previousResponses = v.allResponses,
                          !.agents = m.agents, !.rejection = None,
                          !.currentInstanceIndex = m.index,
                          !.callLog = m.log]
                : m \in { MapAgents(v.config.layers[l].agents, v.currentInput,
                                    v.allResponses, v.currentInstanceIndex,
                                    v.callLog) } })
          : v \in {c} })

-----------------------------------------------------------------------------
(* Aggregator: the contents the strategies compute                         *)

\* A join of the contents as they come.
ConcatenateUntrimmed(responses) == Join(Contents(responses), <<"\n", "\n">>)

Concatenate(responses) ==
    Join([i \in 1..Len(responses) |-> Trim(responses[i].content)],
         <<"\n", "\n">>)

Voting(responses) == responses[1].content

UniformWeights(n) == [i \in 1..n |-> Num(1, n)]

RECURSIVE WeightedReduce(_, _, _, _)
WeightedReduce(contents, weights, i, acc) ==
    IF i > Len(contents) THEN acc
    ELSE The({ WeightedReduce(contents, weights, i + 1, next)
               : next \in
                   { acc \o NumberToString(
                               Times(ToNumber(contents[i]),
                                     IF i <= Len(weights) THEN weights[i]
                                     ELSE NaN)) } })

Weighted(responses, strategy) ==
    LET weights == IF strategy.weights # None THEN strategy.weights[1]
                   ELSE UniformWeights(Len(responses))
    IN WeightedReduce([i \in 1..Len(responses) |-> Trim(responses[i].content)],
                      weights, 1, <<>>)

SynthesisPrompt(responses, strategy) ==
    LET template == IF strategy.promptTemplate # <<>>
                    THEN strategy.promptTemplate
                    ELSE DEFAULT_AGGREGATION_TEMPLATE
    IN Replace(template, "{responses}",
               Join([i \in 1..Len(responses) |->
                        <<"Response ">> \o NatToString(i) \o <<":", "\n">>
                            \o responses[i].content],
                    <<"\n", "\n">>))

synthesisAgent(strategy) ==
    AgentConfig(<<"synthesizer">>, SYNTHESIS_MODEL,
                IF strategy.promptTemplate # <<>> THEN strategy.promptTemplate
                ELSE DEFAULT_AGGREGATION_TEMPLATE, <<>>)

-----------------------------------------------------------------------------
(* Chain Controller: runMOAChain between two awaits                        *)

\* A catch block that hands back the running input as content.
FailKeepsContent(c, message) ==
    [c EXCEPT !.pc = "failed",
              !.result = Some(ModelResponse(c.currentInput, NoMetadata,
                                  <<"Error in MOA chain: ">> \o message))]

\* The catch block: the run returns an error-bearing response.
Fail(c, message) ==
    [c EXCEPT !.pc = "failed",
              !.result = Some(ModelResponse(<<>>, NoMetadata,
                                  <<"Error in MOA chain: ">> \o message))]

\* An error raised inside the try block reaches the catch block.
Throw(c, message) == Fail([c EXCEPT !.thrown = Some(message)], message)

\* A final response that reports the iteration count the loop used.
CompletedEffectiveIterations(c) ==
    [c EXCEPT !.pc = "completed",
              !.result = Some(ModelResponse(c.currentInput,
                            [iterations |-> Some(c.maxIterations),
                             totalResponses |-> Len(c.allResponses),
                             finalResponseLength |-> Len(c.currentInput),
                             present |-> TRUE],
                            <<>>))]

\* Both loops ran out: the final response.
Completed(c) ==
    [c EXCEPT !.pc = "completed",
              !.result = Some(ModelResponse(c.currentInput,
                            [iterations |-> c.config.maxIterations,
                             totalResponses |-> Len(c.allResponses),
                             finalResponseLength |-> Len(c.currentInput),
                             present |-> TRUE],
                            <<>>))]

\* The loop heads, from layer position l of iteration it on: the next layer
\* to process, or the end of the run.
\* A loop that tests the iteration count one iteration late.
RECURSIVE LoopOneMore(_, _, _)
LoopOneMore(c, it, l) ==
    IF it > c.maxIterations THEN Completed(c)
    ELSE IF l > Len(c.config.layers) THEN LoopOneMore(c, it + 1, 1)
    ELSE processLayer(c, it, l)

RECURSIVE Loop(_, _, _)
Loop(c, it, l) ==
    IF ~(it < c.maxIterations) THEN Completed(c)
    ELSE IF l > Len(c.config.layers) THEN Loop(c, it + 1, 1)
    ELSE processLayer(c, it, l)

\* What a call of the stop predicate can do.
StopOutcomes == {"true", "false", "throws"}

\* An append that keeps the input of the layer that just ran.
AppendedStaleInput(c, aggregated) ==
    [c EXCEPT !.allResponses = Append(c.allResponses, aggregated)]

\* An append that starts the history over.
AppendedOverwrite(c, aggregated) ==
    [c EXCEPT !.allResponses = <<aggregated>>,
              !.currentInput = aggregated.content]

\* The aggregate joins Response History and becomes the running input.
Appended(c, aggregated) ==
    [c EXCEPT !.allResponses = Append(c.allResponses, aggregated),
              !.currentInput = aggregated.content]

\* A stop predicate called with the history the layer started from.
StopCallStale(c) == [c EXCEPT !.stopSeen = Some(c.previousResponses)]

\* The stop predicate is called with Response History.
StopCall(c) == [c EXCEPT !.stopSeen = Some(c.allResponses)]

\* The run once a layer's aggregate is there: append, thread the input,
\* ask the stop predicate, go on with the loops.  The set of possible
\* successors.
AfterAggregate(c, aggregated) ==
    UNION { LET c2 == StopCall(c1)
            IN IF c1.config.stopCriteria
               THEN { CASE o = "true" ->
                             [c2 EXCEPT !.pc = "stopped",
                                        !.result = Some(aggregated)]
                        [] o = "false" ->
                             Loop(c2, c2.iteration, c2.layerIdx + 1)
                        [] OTHER -> Throw(c2, <<"stopCriteria threw">>)
                      : o \in StopOutcomes }
               ELSE { Loop(c1, c1.iteration, c1.layerIdx + 1) }
            : c1 \in {Appended(c, aggregated)} }

\* The switch on strategy.method.
AggregateSwitch(c, responses, strategy) ==
    CASE strategy.method = "synthesis" ->
           LET agent == synthesisAgent(strategy)
               prompt == SynthesisPrompt(responses, strategy)
               r == runModel(agent, prompt, c.currentInstanceIndex, c.callLog)
           IN { [c EXCEPT !.pc = "awaitSynthesis",
                          !.synth = Some(Invocation(agent, r.st, <<>>,
                                            r.instanceUri, prompt, NoResponse,
                                            r.reason)),
                          !.currentInstanceIndex = r.index,
                          !.callLog = r.log] }
      [] strategy.method = "weighted" ->
           AfterAggregate(c, ModelResponse(Weighted(responses, strategy),
                                           NoMetadata, <<>>))
      [] strategy.method = "voting" ->
           AfterAggregate(c, ModelResponse(Voting(responses), NoMetadata, <<>>))
      [] OTHER ->
           AfterAggregate(c, ModelResponse(Concatenate(responses),
                                           NoMetadata, <<>>))

\* aggregateResponses up to its first await.
aggregateResponses(c, responses, strategy) ==
    IF Len(responses) = 0
    THEN AfterAggregate(c, ModelResponse(<<>>, NoMetadata,
                                         <<"No responses to aggregate">>))
    ELSE IF EndsWith(strategy.promptTemplate, ".xml")
    THEN { [c EXCEPT !.pc = "awaitStrategyXML"] }
    ELSE AggregateSwitch(c, responses, strategy)

\* A Promise.all that hands the responses back last agent first.
layerResponsesReversed(c) ==
    [i \in 1..Len(c.agents) |-> c.agents[Len(c.agents) + 1 - i].response]

\* The responses Promise.all resolves with: the agents' responses in the
\* agents' order.
layerResponses(c) == [i \in 1..Len(c.agents) |-> c.agents[i].response]

\* A controller that aggregates what the agents that did answer returned.
AfterLayerPartial(c) ==
    LET answered == SelectSeq(c.agents, LAMBDA a : a.st = "fulfilled")
    IN aggregateResponses(c, [i \in 1..Len(answered) |-> answered[i].response],
                          c.config.layers[c.layerIdx].aggregationStrategy)

\* runMOAChain after `await processLayer(...)`.
AfterLayer(c) ==
    IF c.rejection # None THEN { Throw(c, c.rejection[1]) }
    ELSE LET layer == c.config.layers[c.layerIdx]
             errors == SelectSeq(layerResponses(c), LAMBDA r : r.error # <<>>)
         IN IF Len(errors) > 0
            THEN { Throw(c, <<"Layer ">> \o layer.name
                                \o <<" execution failed: ">> \o errors[1].error) }
            ELSE aggregateResponses(c, layerResponses(c),
                                    layer.aggregationStrategy)

-----------------------------------------------------------------------------
(* Actions                                                                 *)

Init ==
    /\ ollamaInstances \in {Instances(k) : k \in 0..MaxInstances}
    /\ currentInstanceIndex = 0
    /\ callLog = <<>>
    /\ config \in Configs
    /\ initialInput = <<"X">>
    /\ pc = "main"
    /\ maxIterations = 0
    /\ iteration = 0
    /\ layerIdx = 1
    /\ currentInput = <<>>
    /\ allResponses = <<>>
    /\ layerInput = <<>>
    /\ previousResponses = <<>>
    /\ agents = <<>>
    /\ rejection = None
    /\ synth = None
    /\ stopSeen = None
    /\ thrown = None
    /\ result = None
    /\ chain = ChainIdle

\* main: preloadModels takes an endpoint and loads the models; when that
\* fails the process exits before the chain runs.
Preload ==
    /\ pc = "main"
    /\ LET g == getNextInstance(currentInstanceIndex)
       IN \E ok \in BOOLEAN :
            Commit([Cur EXCEPT !.pc = IF ok THEN "preloaded" ELSE "exit",
                               !.currentInstanceIndex = g.index,
                               !.callLog = Append(callLog, g.uri)])

\* runMOAChain from its call to its first await.
RunMOAChain ==
    /\ pc = "preloaded"
    /\ Commit(Loop([Cur EXCEPT !.currentInput = initialInput,
                               !.allResponses = <<>>,
                               !.maxIterations =
                                   IF config.maxIterations # None
                                      /\ config.maxIterations[1] # 0
                                   THEN config.maxIterations[1] ELSE 1],
                   0, 1))

\* An agent's `await readXMLPrompt(...)` returns or throws.
AgentReadXMLPrompt(i) ==
    /\ i \in 1..Len(agents)
    /\ agents[i].st = "readXMLPrompt"
    /\ \E xml \in ReadXMLPrompt(agents[i].agent.promptTemplate) :
         IF xml.ok
         THEN LET prompt == contextualPrompt(xml.template, layerInput,
                                             previousResponses)
                  r == runModel(agents[i].agent, prompt, currentInstanceIndex,
                                callLog)
              IN Commit([Cur EXCEPT
                     !.agents[i] = [agents[i] EXCEPT !.st = r.st,
                                        !.instanceUri = r.instanceUri,
                                        !.prompt = prompt,
                                        !.reason = r.reason],
                     !.currentInstanceIndex = r.index,
                     !.callLog = r.log])
         ELSE Commit([Cur EXCEPT
                     !.agents[i] = [agents[i] EXCEPT !.st = "rejected",
                                                     !.reason = xml.reason],
                     !.rejection = IF rejection = None THEN Some(xml.reason)
                                   ELSE rejection])

\* An agent's runModel settles: the backend returned, or runModel threw.
AgentSettle(i) ==
    /\ i \in 1..Len(agents)
    /\ agents[i].st \in {"running", "thrown"}
    /\ \E s \in IF agents[i].st = "thrown"
                THEN {[ok |-> FALSE, response |-> NoResponse,
                       reason |-> agents[i].reason]}
                ELSE {runModelSettle(agents[i].agent, o) :
                        o \in BackendOutcomes(agents[i].agent.model)} :
         Commit([Cur EXCEPT
                 !.agents[i] = Settled(agents[i], s),
                 !.rejection = IF ~s.ok /\ rejection = None
                               THEN Some(s.reason) ELSE rejection])

\* Promise.all settled: every agent fulfilled, or one rejected.
LayerSettled ==
    /\ pc = "awaitLayer"
    /\ rejection # None \/ \A i \in 1..Len(agents) : agents[i].st = "fulfilled"
    /\ \E n \in AfterLayer(Cur) : Commit(n)

\* aggregateResponses' `await readXMLPrompt(strategy.promptTemplate)`.
StrategyReadXMLPrompt ==
    /\ pc = "awaitStrategyXML"
    /\ LET strategy == config.layers[layerIdx].aggregationStrategy
       IN \E xml \in ReadXMLPrompt(strategy.promptTemplate) :
            IF xml.ok
            THEN LET c == [Cur EXCEPT
                             !.config.layers[layerIdx].aggregationStrategy
                                  .promptTemplate = xml.template]
                 IN \E n \in AggregateSwitch(c, layerResponses(c),
                        c.config.layers[layerIdx].aggregationStrategy) :
                      Commit(n)
            ELSE Commit(Throw(Cur, xml.reason))

\* The synthesis model's runModel settles.
SynthesisSettle ==
    /\ pc = "awaitSynthesis"
    /\ \E s \in IF synth[1].st = "thrown"
                THEN {[ok |-> FALSE, response |-> NoResponse,
                       reason |-> synth[1].reason]}
                ELSE {runModelSettle(synth[1].agent, o) :
                        o \in BackendOutcomes(synth[1].agent.model)} :
         LET c == [Cur EXCEPT !.synth = Some(Settled(synth[1], s))]
         IN IF s.ok
            THEN \E n \in AfterAggregate(c, s.response) : Commit(n)
            ELSE Commit(Throw(c, s.reason))

Next ==
    \/ Preload
    \/ RunMOAChain
    \/ \E i \in 1..MaxAgents : AgentReadXMLPrompt(i)
    \/ \E i \in 1..MaxAgents : AgentSettle(i)
    \/ LayerSettled
    \/ StrategyReadXMLPrompt
    \/ SynthesisSettle

Spec == Init /\ [][Next]_vars

\* The runs of one configured endpoint, every pending call (a prompt
\* document read, a backend call, a settled Promise.all) being answered
\* eventually.
InitFair == Init /\ Len(ollamaInstances) = 1

SpecFair == InitFair /\ [][Next]_vars /\ WF_vars(Next)

-----------------------------------------------------------------------------
(* aggregateResponses as a function of its arguments: a run is taken up at *)
(* the point where processLayer has resolved with the responses, which are *)
(* drawn from a bounded set, as is the layer's strategy.                   *)

ResponseContents ==
    { <<"6">>, <<"1", ".", "5">>, <<" ", "b", "\n">>, <<"b", " ", "c">> }

AggregatorStrategies ==
    { AggregationStrategy(method, template, weights) :
        method \in {"synthesis", "weighted", "voting", "concatenate", "average"},
        template \in {<<>>, <<"join", ".xml">>},
        weights \in {None, Some(<<Num(2, 1)>>)} }

AggregatorConfigs ==
    { MOAConfig(<<Layer(<<"L1">>, [i \in 1..n |-> PlainAgent(i)], strategy)>>,
                Some(1), FALSE) :
        n \in 0..MaxAgents, strategy \in AggregatorStrategies }

\* The run of configuration cfg at the end of its only processLayer call,
\* agent i having answered contents[i]: no endpoint is configured, main and
\* every agent (twice) have asked the selector for one.
AggregatorStart(cfg, contents) ==
    LET n == Len(cfg.layers[1].agents)
        prompt == contextualPrompt(InlineTemplate, <<"X">>, <<>>)
    IN [currentInstanceIndex |-> 0,
        callLog |-> [k \in 1..(1 + 2 * n) |-> LocalhostUri],
        config |-> cfg, pc |-> "awaitLayer", maxIterations |-> 1,
        iteration |-> 0, layerIdx |-> 1,
        currentInput |-> <<"X">>, allResponses |-> <<>>,
        layerInput |-> <<"X">>, previousResponses |-> <<>>,
        agents |-> [i \in 1..n |->
                      Invocation(cfg.layers[1].agents[i], "fulfilled",
                                 LocalhostUri, LocalhostUri, prompt,
                                 ModelResponse(contents[i], NoMetadata, <<>>),
                                 <<>>)],
        rejection |-> None, synth |-> None,
        stopSeen |-> None, thrown |-> None, result |-> None]

\* The states the aggregator is taken up in.
AggregatorStarts ==
    UNION { { AggregatorStart(cfg, contents) :
                contents \in [1..Len(cfg.layers[1].agents) -> ResponseContents] } :
            cfg \in AggregatorConfigs }

InitAggregator ==
    /\ ollamaInstances = <<>>
    /\ initialInput = <<"X">>
    /\ \E c \in AggregatorStarts :
          /\ currentInstanceIndex = c.currentInstanceIndex
          /\ callLog = c.callLog
          /\ config = c.config
          /\ pc = c.pc
          /\ maxIterations = c.maxIterations
          /\ iteration = c.iteration
          /\ layerIdx = c.layerIdx
          /\ currentInput = c.currentInput
          /\ allResponses = c.allResponses
          /\ layerInput = c.layerInput
          /\ previousResponses = c.previousResponses
          /\ agents = c.agents
          /\ rejection = c.rejection
          /\ synth = c.synth
          /\ stopSeen = c.stopSeen
          /\ thrown = c.thrown
          /\ result = c.result
    /\ chain = ChainIdle

NextAggregator ==
    \/ LayerSettled
    \/ StrategyReadXMLPrompt
    \/ SynthesisSettle

SpecAggregator == InitAggregator /\ [][NextAggregator]_vars

-----------------------------------------------------------------------------
(* Runs whose prompt documents are named by references of every kind:      *)
(* inside the working directory, beside it, elsewhere.                     *)

PromptFiles ==
    << <<"agent", ".xml">>,
       <<"/", "work", "/", "p", ".xml">>,
       <<"/", "work", "-old", "/", "p", ".xml">>,
       <<"/", "tmp", "/", "work", "/", "p", ".xml">>,
       <<"/", "etc", "/", "p", ".xml">> >>

\* n agents that take their prompts from the references from the f-th on.
PromptAgents(f, n) ==
    [i \in 1..n |->
        AgentConfig(<<"a">> \o NatToString(i), LlmModel,
                    PromptFiles[((f + i - 2) % Len(PromptFiles)) + 1], <<>>)]

PromptConfigs ==
    { MOAConfig(<<Layer(<<"L1">>, PromptAgents(f, n),
                        AggregationStrategy("synthesis", PromptFiles[g], None))>>,
                Some(1), FALSE) :
        f \in 1..Len(PromptFiles), g \in {1, 3}, n \in 1..MaxAgents }

InitPrompt ==
    /\ ollamaInstances = Instances(1)
    /\ currentInstanceIndex = 0
    /\ callLog = <<>>
    /\ config \in PromptConfigs
    /\ initialInput = <<"X">>
    /\ pc = "main"
    /\ maxIterations = 0
    /\ iteration = 0
    /\ layerIdx = 1
    /\ currentInput = <<>>
    /\ allResponses = <<>>
    /\ layerInput = <<>>
    /\ previousResponses = <<>>
    /\ agents = <<>>
    /\ rejection = None
    /\ synth = None
    /\ stopSeen = None
    /\ thrown = None
    /\ result = None
    /\ chain = ChainIdle

SpecPrompt == InitPrompt /\ [][Next]_vars

-----------------------------------------------------------------------------
(* moa_chain.ts: moaChainWithIterations                                    *)

MaxPromptFiles == 2
MaxModels == 2

\* The trimmed contents of the first n prompt files.
PromptTexts(n) == [k \in 1..n |-> <<"P">> \o NatToString(k)]

\* The first n models of the chain.
ChainModels(n) == [k \in 1..n |-> <<"m">> \o NatToString(k)]

\* What `<apiBase> run <model>` can print.
ChainStdout(model) ==
    { <<"o">> \o model \o <<"\n">>, <<"r">> \o model \o <<"\n">> }

\* moaJoin with the method moaChainWithIterations passes, "concatenate".
moaJoin(outputs) == Join(outputs, <<"\n">>)

\* moaChainWithIterations after reading the prompt files; runs lists the
\* runModel calls made so far.
ChainStart(promptFiles, models, iterations) ==
    [pc |-> "loop", models |-> models, iterations |-> iterations,
     output |-> promptFiles, i |-> 0, j |-> 0, outputs |-> <<>>,
     runs |-> <<>>, finalOutput |-> None]

InitChain ==
    /\ ollamaInstances = <<>>
    /\ currentInstanceIndex = 0
    /\ callLog = <<>>
    /\ config = MOAConfig(<<>>, None, FALSE)
    /\ initialInput = <<>>
    /\ pc = "main"
    /\ maxIterations = 0
    /\ iteration = 0
    /\ layerIdx = 1
    /\ currentInput = <<>>
    /\ allResponses = <<>>
    /\ layerInput = <<>>
    /\ previousResponses = <<>>
    /\ agents = <<>>
    /\ rejection = None
    /\ synth = None
    /\ stopSeen = None
    /\ thrown = None
    /\ result = None
    /\ chain \in { ChainStart(PromptTexts(p), ChainModels(m), n) :
                      p \in 1..MaxPromptFiles, m \in 1..MaxModels,
                      n \in 0..MaxIterations }

\* The body of the inner loop: model j runs on a prompt taken from output;
\* when the command fails the process exits.
ChainRunModel ==
    /\ chain.pc = "loop"
    /\ chain.i < chain.iterations
    /\ chain.j < Len(chain.models)
    /\ LET model == chain.models[chain.j + 1]
           prompt == chain.output[(chain.j % Len(chain.output)) + 1]
       IN \/ \E modelOutput \in ChainStdout(model) :
               chain' = [chain EXCEPT
                           !.outputs = Append(chain.outputs, modelOutput),
                           !.runs = Append(chain.runs,
                                        [model |-> model, prompt |-> prompt,
                                         output |-> modelOutput]),
                           !.j = chain.j + 1]
          \/ chain' = [chain EXCEPT !.pc = "exit"]
    /\ UNCHANGED cliVars

\* The end of an iteration: the outputs are joined into the only element
\* of output.
ChainJoin ==
    /\ chain.pc = "loop"
    /\ chain.i < chain.iterations
    /\ chain.j = Len(chain.models)
    /\ chain' = [chain EXCEPT !.output = <<moaJoin(chain.outputs)>>,
                              !.outputs = <<>>, !.j = 0, !.i = chain.i + 1]
    /\ UNCHANGED cliVars

ChainReturn ==
    /\ chain.pc = "loop"
    /\ ~(chain.i < chain.iterations)
    /\ chain' = [chain EXCEPT !.pc = "returned",
                              !.finalOutput = Some(chain.output[1])]
    /\ UNCHANGED cliVars

NextChain == ChainRunModel \/ ChainJoin \/ ChainReturn

SpecChain == InitChain /\ [][NextChain]_vars

-----------------------------------------------------------------------------
(* Properties                                                              *)

Returned == pc \in {"stopped", "failed", "completed"}

Started == pc \notin {"main", "exit", "preloaded"}

NumLayers == Len(config.layers)

IsPrefix(s, t) == Len(s) <= Len(t) /\ SubSeq(t, 1, Len(s)) = s

ContainsText(s, sub) ==
    \E i \in 0..(Len(s) - Len(sub)) : SubSeq(s, i + 1, i + Len(sub)) = sub

\* An agent of the current layer execution has failed: its prompt
\* resolution or its invocation raised.
AgentFailed == \E i \in 1..Len(agents) : agents[i].st \in {"thrown", "rejected"}

ErrorResult ==
    /\ result # None
    /\ result[1].error # <<>>
    /\ result[1].content = <<>>

\* C1: once an agent of a layer execution has failed, every later step
\* leaves Response History as it is, stays at that layer execution (no
\* aggregation is started, no other layer is dispatched), and when the run
\* has returned its response is error-bearing with empty content.
C1_FailedLayerHaltsRun ==
    [][AgentFailed =>
         /\ AgentFailed'
         /\ allResponses' = allResponses
         /\ iteration' = iteration /\ layerIdx' = layerIdx
         /\ Len(agents') = Len(agents)
         /\ synth' = synth
         /\ pc' \in {"awaitLayer", "failed"}
         /\ (pc' = "failed" => ErrorResult')]_vars

\* An agent failed in a layer that had layers or iterations after it and
\* aggregates before it, and the run returned.
C1_Witness ==
    /\ pc = "failed" /\ AgentFailed /\ ErrorResult
    /\ Len(allResponses) >= 1
    /\ (layerIdx < NumLayers \/ iteration + 1 < maxIterations)

\* C2: the run ends only by returning a response, and whenever an error was
\* raised during the run (by an agent, a prompt resolution, an aggregation
\* or the stop predicate) the response returned is error-bearing with
\* empty content.
C2_NeverEscapes ==
    /\ pc \in {"main", "exit", "preloaded", "awaitLayer", "awaitStrategyXML",
               "awaitSynthesis", "stopped", "failed", "completed"}
    /\ (thrown # None => pc = "failed")
    /\ (Returned => result # None)
    /\ (Returned /\ (thrown # None \/ rejection # None) => ErrorResult)

\* The stop predicate or the aggregation raised (no agent failed) and the
\* run returned an error-bearing response.
C2_Witness ==
    /\ pc = "failed" /\ thrown # None /\ rejection = None
    /\ ErrorResult
    /\ Len(allResponses) >= 1

\* C3: when the run failed because an agent of layer L failed, the final
\* error names layer L and contains the failing agent's error.
C3_ErrorNamesLayer ==
    (pc = "failed" /\ rejection # None) =>
        /\ ContainsText(result[1].error, config.layers[layerIdx].name)
        /\ ContainsText(result[1].error, rejection[1])

\* C4: the stop predicate is called with Response History whenever an
\* aggregate was appended; when it stops the run after the k-th aggregate,
\* the run returns that aggregate, the history has length k, and the last
\* agents dispatched are those of the k-th layer execution.
C4_StopReturnsAggregate ==
    /\ (config.stopCriteria /\ allResponses # <<>>) =>
           stopSeen = Some(allResponses)
    /\ pc = "stopped" =>
           /\ result = Some(allResponses[Len(allResponses)])
           /\ Len(allResponses) = iteration * NumLayers + layerIdx
           /\ previousResponses
                  = SubSeq(allResponses, 1, Len(allResponses) - 1)
           /\ \A i \in 1..Len(agents) : agents[i].st = "fulfilled"

\* The stop predicate fired after the first layer of a pipeline with more
\* layers and more iterations configured.
C4_Witness ==
    /\ pc = "stopped" /\ Len(allResponses) = 1
    /\ NumLayers > 1 /\ maxIterations > 1
    /\ Len(agents) > 0

\* C5: the controller decides to fail, aggregate or stop only after every
\* agent of the layer has completed: no backend call of the layer is still
\* running once the controller has decided.
C5_DecidesAfterAllAgents ==
    pc \in {"awaitStrategyXML", "awaitSynthesis", "stopped", "failed",
            "completed"} =>
        \A i \in 1..Len(agents) : agents[i].st # "running"

\* C6: a layer execution is dispatched only when all earlier layer
\* executions have their aggregate in Response History, and its input is
\* the initial input for the first one and the content of the last
\* aggregate otherwise; every prompt sent to a backend carries that input.
C6_SequentialThreading ==
    Started =>
        /\ Len(previousResponses) = iteration * NumLayers + layerIdx - 1
        /\ IsPrefix(previousResponses, allResponses)
        /\ layerInput = IF previousResponses = <<>> THEN initialInput
                        ELSE previousResponses[Len(previousResponses)].content
        /\ \A i \in 1..Len(agents) :
              agents[i].st \in {"running", "fulfilled"} =>
                  ContainsText(agents[i].prompt, layerInput)

\* The first layer of a later iteration runs on the aggregate of the last
\* layer of the iteration before.
C6_Witness ==
    /\ pc = "awaitLayer" /\ iteration >= 1 /\ layerIdx = 1 /\ NumLayers > 1
    /\ layerInput = allResponses[Len(allResponses)].content
    /\ layerInput # initialInput /\ layerInput # <<>>
    /\ \E i \in 1..Len(agents) : agents[i].st = "running"

\* C7: Response History only grows, by one aggregate at a time; while a
\* layer execution is under way it holds one aggregate per earlier layer
\* execution, and at completion (iterations executed) x (layers).
C7_AppendOnly ==
    /\ [][/\ IsPrefix(allResponses, allResponses')
          /\ Len(allResponses') <= Len(allResponses) + 1]_vars
    /\ [](pc \in {"awaitLayer", "awaitStrategyXML", "awaitSynthesis"} =>
            Len(allResponses) = iteration * NumLayers + layerIdx - 1)
    /\ [](pc = "completed" =>
            Len(allResponses) = maxIterations * NumLayers)

\* A run of two iterations over two layers completed.
C7_Witness ==
    /\ pc = "completed" /\ maxIterations >= 2 /\ NumLayers >= 2
    /\ Len(allResponses) = maxIterations * NumLayers

\* C8: a completed run returns an error-free response with the content of
\* the last aggregate, the configured iteration count and the size of
\* Response History.
C8_CompletedResponse ==
    pc = "completed" =>
        /\ result # None
        /\ result[1].error = <<>>
        /\ allResponses # <<>>
        /\ result[1].content = allResponses[Len(allResponses)].content
        /\ result[1].metadata.present
        /\ result[1].metadata.iterations = config.maxIterations
        /\ result[1].metadata.totalResponses = Len(allResponses)

\* A completed run whose configuration leaves the iteration count to the
\* default.
C8_Witness ==
    /\ pc = "completed" /\ Len(allResponses) >= 2
    /\ config.maxIterations \in {None, Some(0)}
    /\ result[1].content # <<>>

\* C9: with K >= 1 endpoints the cursor stays in 0..K-1 and the n-th call
\* of getNextInstance returns endpoint (n-1) mod K.
C9_RoundRobin ==
    LET K == Len(ollamaInstances)
    IN K >= 1 =>
         /\ currentInstanceIndex \in 0..(K - 1)
         /\ (pc = "main" => currentInstanceIndex = 0)
         /\ currentInstanceIndex = Len(callLog) % K
         /\ \A n \in 1..Len(callLog) :
               callLog[n] = ollamaInstances[((n - 1) % K) + 1].uri

\* K + 1 calls were made, by agents whose invocations interleave, and the
\* first endpoint came back on call K + 1.
C9_Witness ==
    LET K == Len(ollamaInstances)
    IN /\ K >= 2 /\ Len(callLog) >= K + 1
       /\ callLog[K + 1] = callLog[1] /\ callLog[2] # callLog[1]
       /\ \E i, j \in 1..Len(agents) :
             /\ i < j
             /\ agents[i].st = "readXMLPrompt" /\ agents[j].st = "running"

\* C10: an agent without an endpoint override runs against the endpoint
\* the Layer Processor announced for it, and an agent with an override runs
\* against its override.
C10_AnnouncedEndpointUsed ==
    \A i \in 1..Len(agents) :
        agents[i].st \in {"running", "fulfilled"} =>
            agents[i].instanceUri =
                IF agents[i].agent.instanceUri # <<>>
                THEN agents[i].agent.instanceUri
                ELSE agents[i].announced

-----------------------------------------------------------------------------
(* Layer Processor: order of the responses (C11)                           *)

DeclaredAgents == config.layers[layerIdx].agents

\* What a model's backend answers when its output is not blank, trimmed.
Answer(model) == Trim(CHOOSE s \in Stdout(model) : Trim(s) # <<>>)

\* The layer of the last aggregation appended its aggregate.
Aggregated == Len(allResponses) > Len(previousResponses)

\* C11: when every agent of a layer succeeds, processLayer returns one
\* response per declared agent and the i-th response is the i-th declared
\* agent's, whatever the order in which the invocations completed: each
\* invocation stays at its agent's position, a fulfilled one holds its own
\* agent's answer, and a weighted aggregate, whose content depends on the
\* order, is the one computed over the answers in declared order.
C11_DeclaredOrder ==
    Started =>
        /\ Len(agents) = Len(DeclaredAgents)
        /\ \A i \in 1..Len(agents) :
              /\ agents[i].agent = DeclaredAgents[i]
              /\ agents[i].st = "fulfilled" =>
                    agents[i].response.content = Answer(agents[i].agent.model)
        /\ LET strategy == config.layers[layerIdx].aggregationStrategy
           IN Aggregated /\ strategy.method = "weighted" =>
                allResponses[Len(allResponses)].content =
                    WeightedReduce(
                        [i \in 1..Len(DeclaredAgents) |->
                            Answer(DeclaredAgents[i].model)],
                        IF strategy.weights # None THEN strategy.weights[1]
                        ELSE UniformWeights(Len(DeclaredAgents)), 1, <<>>)

\* A later agent has answered while the first one is still running, in a
\* layer whose agents answer differently.
C11_Witness ==
    /\ pc = "awaitLayer"
    /\ Len(agents) >= 2
    /\ agents[1].st = "running"
    /\ agents[2].st = "fulfilled"
    /\ Answer(agents[1].agent.model) # agents[2].response.content

-----------------------------------------------------------------------------
(* Agent Invoker: blank output (C12)                                       *)

\* Agent i's backend exited 0 and printed nothing but whitespace.
EmptyResponse(i) ==
    /\ agents[i].st = "rejected"
    /\ agents[i].reason =
           RunModelError(agents[i].agent, <<"Model returned empty response">>)

\* No invocation is fulfilled with blank content, and a layer execution in
\* which an agent printed blank output fails: no aggregation, no append.
EmptyOutputFailsLayer ==
    /\ \A i \in 1..Len(agents) :
          agents[i].st = "fulfilled" => Trim(agents[i].response.content) # <<>>
    /\ \A i \in 1..Len(agents) :
          EmptyResponse(i) =>
            /\ pc \in {"awaitLayer", "failed"}
            /\ allResponses = previousResponses
            /\ pc = "failed" => ErrorResult

\* C12 as stated: an agent invocation whose backend succeeds with empty or
\* whitespace-only output is a failure, the layer fails without aggregation
\* or append, and the final error carries that agent's empty-response
\* error.
C12_EmptyOutputIsTheError ==
    /\ EmptyOutputFailsLayer
    /\ \A i \in 1..Len(agents) :
          EmptyResponse(i) /\ pc = "failed" =>
            ContainsText(result[1].error, agents[i].reason)

\* C12 amended: as above, but the final error carries the error of the
\* agent that failed first; it is the empty-response error of agent i when
\* no other agent of the layer failed before it.
C12_FirstFailureIsTheError ==
    /\ EmptyOutputFailsLayer
    /\ \A i \in 1..Len(agents) :
          EmptyResponse(i) =>
            /\ rejection # None
            /\ pc = "failed" =>
                  result[1].error = <<"Error in MOA chain: ">> \o rejection[1]
            /\ (\A j \in 1..Len(agents) :
                   j # i => agents[j].st \notin {"thrown", "rejected"})
                 => rejection[1] = agents[i].reason

\* A run failed by a blank output, with an agent that answered properly.
C12_Witness ==
    /\ pc = "failed"
    /\ \E i, j \in 1..Len(agents) :
          /\ EmptyResponse(i)
          /\ rejection = Some(agents[i].reason)
          /\ ContainsText(result[1].error, agents[i].reason)
          /\ agents[j].st = "fulfilled"

-----------------------------------------------------------------------------
(* Aggregator: weighted and concatenate (C13, C14)                         *)

\* The strategy aggregateResponses was called with, by its method and
\* weights (the run has one layer).
Strategy == config.layers[1].aggregationStrategy

\* The responses aggregateResponses was called with.
Responses == [i \in 1..Len(agents) |-> agents[i].response]

SameValue(a, b) == ~a.nan /\ ~b.nan /\ a.num * b.den = b.num * a.den

\* C13: weighted aggregation with no weights supplied over N >= 1
\* responses whose contents are all the same numeric string v yields a
\* response whose content represents the value v.
C13_UniformWeightsYieldValue ==
    ( /\ pc = "completed"
      /\ Strategy.method = "weighted"
      /\ Strategy.weights = None
      /\ Len(Responses) >= 1
      /\ ~ToNumber(Responses[1].content).nan
      /\ \A i \in 1..Len(Responses) :
            Responses[i].content = Responses[1].content )
    => /\ Len(allResponses) = 1
       /\ allResponses[1].error = <<>>
       /\ SameValue(ToNumber(allResponses[1].content),
                    ToNumber(Responses[1].content))

-----------------------------------------------------------------------------
(* Prompt Resolver: the working directory boundary (C15)                   *)

\* The resolved path is the working directory or lies below it.
InsideCwd(resolvedPath) ==
    resolvedPath = Cwd \/ IsPrefix(Cwd \o <<"/">>, resolvedPath)

\* The errors readXMLPrompt throws before it reads the file.
ErrorsBeforeRead(promptFile) ==
    { PathError, <<"Prompt file not found: ">> \o promptFile,
      <<"Prompt file too large">> }

\* C15: readXMLPrompt rejects, with an error and without reading the file,
\* every document reference whose resolved path lies outside the working
\* directory's subtree: an agent whose reference resolves outside it either
\* still awaits readXMLPrompt or was rejected with an error thrown before
\* the file is read.
C15_OutsideCwdRejected ==
    \A i \in 1..Len(agents) :
        ( /\ EndsWith(agents[i].agent.promptTemplate, ".xml")
          /\ ~InsideCwd(Resolve(agents[i].agent.promptTemplate)) )
        => \/ agents[i].st = "readXMLPrompt"
           \/ /\ agents[i].st = "rejected"
              /\ agents[i].reason \in
                    ErrorsBeforeRead(agents[i].agent.promptTemplate)

-----------------------------------------------------------------------------
(* Pipeline Configuration: frame (C16)                                     *)

\* C16: the Pipeline Configuration is unchanged by a run: whatever layer
\* executions and aggregations have happened, the configuration is still
\* one of the configurations a run is started with, every strategy's
\* method, promptTemplate and weights being what was loaded.
C16_ConfigUnchanged == config \in Configs

-----------------------------------------------------------------------------
(* Question preservation (C17)                                             *)

\* C17: the original question is passed through the entire chain: in every
\* layer of every iteration the prompt given to each agent's model
\* contains the run's original query, not only the previous aggregate
\* (stated for the runs whose aggregations all succeeded).
C17_QuestionPreserved ==
    (\A k \in 1..Len(allResponses) : allResponses[k].error = <<>>)
    => \A i \in 1..Len(agents) :
          agents[i].st \in {"running", "fulfilled"}
              => ContainsText(agents[i].prompt, initialInput)

-----------------------------------------------------------------------------
(* moaChainWithIterations: what each model is given (C18)                  *)

\* C18: in the chain run by moaChainWithIterations the models run in
\* sequence and each model after the first receives as its prompt the
\* output of the model that ran immediately before it.
C18_ModelReceivesPreviousOutput ==
    chain.pc # "idle" =>
        \A k \in 2..Len(chain.runs) :
            ContainsText(chain.runs[k].prompt, Trim(chain.runs[k - 1].output))

-----------------------------------------------------------------------------
(* Termination (C19)                                                       *)

\* The processLayer calls the run has made so far.
LayerExecutions == IF Started THEN iteration * NumLayers + layerIdx ELSE 0

\* The iteration count the loop uses: the configured one, 1 when that is 0
\* or missing.
EffectiveMaxIterations ==
    IF config.maxIterations # None /\ config.maxIterations[1] # 0
    THEN config.maxIterations[1] ELSE 1

-----------------------------------------------------------------------------
(* Error-bearing aggregates (C20)                                          *)

\* C20: no error-bearing response is ever appended to Response History or
\* used as the next layer's input, and runMOAChain never returns an
\* error-free final response after an aggregation returned an
\* error-bearing response.
C20_NoErrorBearingAppended ==
    /\ \A k \in 1..Len(allResponses) : allResponses[k].error = <<>>
    /\ (Returned /\ result[1].error = <<>>) =>
          \A k \in 1..Len(allResponses) : allResponses[k].error = <<>>

-----------------------------------------------------------------------------
(* Iterations executed and reported (C21)                                  *)

\* The iterations of the outer loop the run has entered so far.
ExecutedIterations == IF Started THEN iteration + 1 ELSE 0

\* C21: for every configured maxIterations, 0 and a missing value included,
\* a completed run executed no more iterations than the configured maximum,
\* and the metadata.iterations it reports is the number of iterations it
\* executed.
C21_IterationsExecutedAndReported ==
    pc = "completed" =>
        /\ (config.maxIterations # None
              => ExecutedIterations <= config.maxIterations[1])
        /\ result[1].metadata.iterations = Some(ExecutedIterations)

-----------------------------------------------------------------------------
(* Rendered prompts (C22): runs whose templates name a placeholder more    *)
(* than once and whose input holds placeholder and replacement-pattern     *)
(* text.                                                                   *)

RenderTemplates ==
    << InlineTemplate,
       <<"{input}", " or ", "{input}">>,
       <<"{previous_responses}", "\n", "{input}", "\n",
         "{previous_responses}">>,
       <<"agent", ".xml">> >>

RenderInputs == {<<"X">>, <<"{previous_responses}">>, <<"$", "&">>}

\* n agents that take the templates from the f-th on.
RenderAgents(f, n) ==
    [i \in 1..n |->
        AgentConfig(<<"a">> \o NatToString(i), OllamaModel,
                    RenderTemplates[((f + i - 2) % Len(RenderTemplates)) + 1],
                    <<>>)]

RenderConfigs ==
    { MOAConfig(<<Layer(<<"L1">>, RenderAgents(f, n),
                        AggregationStrategy("concatenate", <<>>, None))>>,
                Some(2), FALSE) :
        f \in 1..Len(RenderTemplates), n \in 1..MaxAgents }

InitRender ==
    /\ ollamaInstances = Instances(1)
    /\ currentInstanceIndex = 0
    /\ callLog = <<>>
    /\ config \in RenderConfigs
    /\ initialInput \in RenderInputs
    /\ pc = "main"
    /\ maxIterations = 0
    /\ iteration = 0
    /\ layerIdx = 1
    /\ currentInput = <<>>
    /\ allResponses = <<>>
    /\ layerInput = <<>>
    /\ previousResponses = <<>>
    /\ agents = <<>>
    /\ rejection = None
    /\ synth = None
    /\ stopSeen = None
    /\ thrown = None
    /\ result = None
    /\ chain = ChainIdle

NextRender ==
    \/ Preload
    \/ RunMOAChain
    \/ \E i \in 1..MaxAgents : AgentReadXMLPrompt(i)
    \/ \E i \in 1..MaxAgents : AgentSettle(i)
    \/ LayerSettled

SpecRender == InitRender /\ [][NextRender]_vars

\* The template an agent's prompt is rendered from: its prompt document's
\* when it names one, its own otherwise.
ResolvedTemplate(agent) ==
    IF EndsWith(agent.promptTemplate, ".xml") THEN PromptDocument.template
    ELSE agent.promptTemplate

\* A template with every {input} replaced by the input and every
\* {previous_responses} by the previous text, both as they stand.
RECURSIVE Rendered(_, _, _)
Rendered(template, input, previous) ==
    IF template = <<>> THEN <<>>
    ELSE (IF template[1] = "{input}" THEN input
          ELSE IF template[1] = "{previous_responses}" THEN previous
          ELSE <<template[1]>>)
         \o Rendered(Tail(template), input, previous)

\* C22: in the prompt processLayer renders for an agent, every occurrence
\* of {input} in the resolved template is replaced by the current input and
\* every occurrence of {previous_responses} by the newline-joined contents
\* of the prior aggregates, and the substituted text is inserted as it
\* stands: a {previous_responses} inside the input is not substituted again.
C22_EveryOccurrenceLiterally ==
    \A i \in 1..Len(agents) :
        agents[i].st \in {"running", "fulfilled"} =>
            agents[i].prompt =
                Rendered(ResolvedTemplate(agents[i].agent), layerInput,
                         Join(Contents(previousResponses), <<"\n">>))

-----------------------------------------------------------------------------
(* Unrecognized namespace prefixes (C23)                                   *)

\* A model identifier runModel has no backend for.
Unrecognized(agent) ==
    ~StartsWith(agent.model, "ollama:") /\ ~StartsWith(agent.model, "llm:")

\* The agents of the layer whose invocation takes an endpoint from the
\* selector on the way to a backend.
SelectorInvocations ==
    {i \in 1..Len(agents) : /\ agents[i].agent.instanceUri = <<>>
                            /\ ~Unrecognized(agents[i].agent)}

\* The first layer execution of a run, with every agent's invocation begun
\* in processLayer's map (no prompt document to wait for).
FirstLayerInvoked ==
    /\ Started /\ iteration = 0 /\ layerIdx = 1 /\ synth = None
    /\ \A i \in 1..Len(agents) : ~EndsWith(agents[i].agent.promptTemplate, ".xml")

SelectorCalls ==
    {i \in 1..Len(agents) : agents[i].agent.instanceUri = <<>>}

====
